---- MODULE Spec2Model ----
(***************************************************************************)
(* Headless test-evaluation orchestrator of the coding playground:         *)
(* the zustand store (runno-store), the language strategy                  *)
(* (getHeadlessExecutor), the test sequencer (checkCode) and the three UI  *)
(* handlers that reach the execution gateway (runCode, runTests,           *)
(* handleCheckAll).                                                        *)
(*                                                                         *)
(* Text is a sequence of characters; source code is a sequence of tokens.  *)
(* An optional JavaScript value is a sequence of length at most one:       *)
(* <<>> is undefined, <<v>> is the value v.                                *)
(***************************************************************************)
EXTENDS Integers, Sequences, FiniteSets, TLC

\* ------------------------------------------------------------------ bounds

\* Number of asynchronous handler invocations (clicks on Run Code, Submit,
\* Check All) in one behaviour.
MaxTasks == 2

\* Number of test-case templates kept from each problem's list.
MaxCases == 2

\* Number of store edits by the user (typing code, switching language or
\* problem) in one behaviour.
MaxEdits == 1

\* ------------------------------------------------------------------ text

None == << >>

Some(v) == << v >>

IsWhite(c) == c \in {" ", "\n"}

RECURSIVE TrimStart(_)
TrimStart(s) ==
  IF s # << >> /\ IsWhite(Head(s)) THEN TrimStart(Tail(s)) ELSE s

RECURSIVE TrimEnd(_)
TrimEnd(s) ==
  IF s # << >> /\ IsWhite(s[Len(s)]) THEN TrimEnd(SubSeq(s, 1, Len(s) - 1)) ELSE s

\* String.prototype.trim
Trim(s) == TrimEnd(TrimStart(s))

\* JavaScript truthiness of an optional string: undefined and '' are falsy.
Truthy(opt) == opt # None /\ opt[1] # << >>

\* ------------------------------------------------------------------ source code

Tok(kind, lit) == [t |-> kind, a |-> lit]

Text == Tok("text", 0)

CompileMarker == Tok("//-compile", 0)

RunMarker == Tok("//-run", 0)

WrapHead == Tok("wrapHead", 0)

WrapTail == Tok("wrapTail", 0)

\* Token kinds whose text contains 'print('.
PrintKinds == {"pyTwoSum", "pyIsValid", "print"}

Includes(code, kinds) == \E k \in DOMAIN code : code[k].t \in kinds

\* String.prototype.replace(/.../g, repl): every token of the kind the
\* regular expression matches is replaced by the same call on literal lit.
ReplaceAll(code, kind, lit) ==
  [k \in DOMAIN code |-> IF code[k].t = kind THEN Tok(kind, lit) ELSE code[k]]

\* !code.trim(): no token of source code is white space.
Blank(userCode) == userCode = << >>

\* ------------------------------------------------------------------ language-support

Languages == {"python", "quickjs", "clangpp"}

supportedLanguages ==
  [python  |-> [runtime |-> "python",  needsCompilation |-> FALSE],
   quickjs |-> [runtime |-> "quickjs", needsCompilation |-> FALSE],
   clangpp |-> [runtime |-> "clangpp", needsCompilation |-> TRUE]]

\* A language identifier without an entry in supportedLanguages.
UnknownLanguage == "ruby"

\* ------------------------------------------------------------------ problems

Desc(kind, lit) == [kind |-> kind, lit |-> lit]

Template(d, stdin, expected) ==
  [description |-> d, stdin |-> stdin, expectedOutput |-> expected]

Take(s, n) == SubSeq(s, 1, IF Len(s) < n THEN Len(s) ELSE n)

twoSumProblem ==
  [id |-> "two-sum",
   starterCode |->
     [python  |-> << Text, Tok("pyTwoSum", 0) >>,
      quickjs |-> << Text, Tok("jsTwoSum", 0) >>,
      clangpp |-> << Text, Tok("cppTwoSum", 0), Text >>],
   testCases |-> Some(Take(
     << Template(Desc("nums", 1), Some(<< >>), Some(<< "[0, 1]" >>)),
        Template(Desc("nums", 2), Some(<< >>), Some(<< "[1, 2]" >>)),
        Template(Desc("nums", 3), Some(<< >>), Some(<< "[0, 1]" >>)) >>,
     MaxCases))]

validParenthesesProblem ==
  [id |-> "valid-parentheses",
   starterCode |->
     [python  |-> << Text, Tok("pyIsValid", 0) >>,
      quickjs |-> << Text, Tok("jsIsValid", 0) >>,
      clangpp |-> << Text, Tok("cppIsValid", 0), Text >>],
   testCases |-> Some(Take(
     << Template(Desc("s", 1), Some(<< >>), Some(<< "true" >>)),
        Template(Desc("s", 2), Some(<< >>), Some(<< "true" >>)),
        Template(Desc("s", 3), Some(<< >>), Some(<< "false" >>)) >>,
     MaxCases))]

\* A problem of the ProblemState type that reads its input from stdin and
\* leaves expectedOutput out of one template.
echoProblem ==
  [id |-> "echo",
   starterCode |->
     [python  |-> << Tok("print", 0) >>,
      quickjs |-> << Text >>,
      clangpp |-> << Text >>],
   testCases |-> Some(Take(
     << Template(Desc("plain", 1), Some(<< "7" >>), Some(<< " ", "[0, 1]", "\n" >>)),
        Template(Desc("plain", 2), None, None),
        Template(Desc("plain", 3), Some(<< "8" >>), Some(<< >>)) >>,
     MaxCases))]

\* A problem of the ProblemState type whose optional testCases is left out.
scratchProblem ==
  [id |-> "scratch",
   starterCode |->
     [python  |-> << Tok("print", 0) >>,
      quickjs |-> << Text >>,
      clangpp |-> << Text >>],
   testCases |-> None]

\* A problem of the ProblemState type whose testCases is an empty array.
emptyProblem ==
  [id |-> "empty",
   starterCode |->
     [python  |-> << Tok("print", 0) >>,
      quickjs |-> << Text >>,
      clangpp |-> << Text >>],
   testCases |-> Some(<< >>)]

problems ==
  { twoSumProblem, validParenthesesProblem, echoProblem, scratchProblem, emptyProblem }

getProblemById(id) == CHOOSE p \in problems : p.id = id

NoProblem == "undefined"

\* ------------------------------------------------------------------ execution results

CrashResult == [resultType |-> "crash"]

TerminatedResult == [resultType |-> "terminated"]

\* A result of a kind checkCode has no branch for.
TimeoutResult == [resultType |-> "timeout"]

CompleteResult(exitCode, stdout, stderr) ==
  [resultType |-> "complete", exitCode |-> exitCode,
   stdout |-> stdout, stderr |-> stderr, tty |-> stdout \o stderr]

\* What the gateway may answer to one call.
ResultsDomain ==
  { CrashResult, TerminatedResult, TimeoutResult,
    CompleteResult(0, << "[0, 1]" >>, << >>),
    CompleteResult(0, << "true", "\n" >>, << >>),
    CompleteResult(0, << "True", "\n" >>, << >>),
    CompleteResult(0, << "None" >>, << >>),
    CompleteResult(1, << "[0, 1]" >>, << "Traceback" >>),
    CompleteResult(2, << >>, << "error:" >>) }

\* The answers kept where handler invocations interleave.
CoreResults ==
  { CrashResult,
    CompleteResult(0, << "[0, 1]" >>, << >>),
    CompleteResult(2, << >>, << "error:" >>) }

\* ------------------------------------------------------------------ runno-store

TestCaseState(id, description, stdin, expectedOutput) ==
  [id |-> id, description |-> description, stdin |-> stdin,
   expectedOutput |-> expectedOutput, status |-> "idle",
   feedback |-> None, result |-> None]

TestFeedback(message, error, expected, received) ==
  [message |-> message, error |-> error, expected |-> expected, received |-> received]

addTestCase(tcs, testCase) == Append(tcs, testCase)

\* setTestStatus that keeps the old feedback when it is given none.
setTestStatusKeepFeedback(tcs, id, status, feedback) ==
  [k \in DOMAIN tcs |->
     IF tcs[k].id = id
       THEN [tcs[k] EXCEPT !.status = status,
                           !.feedback = IF feedback = None THEN @ ELSE feedback]
       ELSE tcs[k]]

\* setTestStatus without the test on the id.
setTestStatusAll(tcs, id, status, feedback) ==
  [k \in DOMAIN tcs |-> [tcs[k] EXCEPT !.status = status, !.feedback = feedback]]

setTestStatus(tcs, id, status, feedback) ==
  [k \in DOMAIN tcs |->
     IF tcs[k].id = id
       THEN [tcs[k] EXCEPT !.status = status, !.feedback = feedback]
       ELSE tcs[k]]

\* setResults without the test on the id.
setResultsAll(tcs, id, result) ==
  [k \in DOMAIN tcs |-> [tcs[k] EXCEPT !.result = Some(result)]]

setResults(tcs, id, result) ==
  [k \in DOMAIN tcs |->
     IF tcs[k].id = id THEN [tcs[k] EXCEPT !.result = Some(result)] ELSE tcs[k]]

\* The sub-array of userProgress entries for problemId (find() takes the first).
getProgressForProblem(progress, problemId) ==
  LET hits == { k \in DOMAIN progress : progress[k].problemId = problemId }
  IN  IF hits = {} THEN None
      ELSE Some(progress[CHOOSE k \in hits : \A j \in hits : k <= j])

loadUserCode(progress, problemId, language) ==
  LET p == getProgressForProblem(progress, problemId)
  IN  IF p = None THEN None
      ELSE IF language \in DOMAIN p[1].languages
             THEN Some(p[1].languages[language].code)
             ELSE None

\* a || b || '' on optional strings
OrElse(a, b) == IF Truthy(a) THEN a[1] ELSE IF Truthy(b) THEN b[1] ELSE << >>

\* InstantiateTemplates numbering the test cases from 1 every time.
InstantiateTemplatesFromOne(problem, first) ==
  IF problem.testCases = None THEN << >>
  ELSE LET ts == problem.testCases[1]
       IN  [k \in DOMAIN ts |->
              TestCaseState(k, ts[k].description, ts[k].stdin, ts[k].expectedOutput)]

\* Test cases instantiated from a problem's templates, ids first, first+1, ...
InstantiateTemplates(problem, first) ==
  IF problem.testCases = None THEN << >>
  ELSE LET ts == problem.testCases[1]
       IN  [k \in DOMAIN ts |->
              TestCaseState(first + k - 1, ts[k].description, ts[k].stdin,
                            ts[k].expectedOutput)]

\* updateProblemProgress without the spread of the old languages.
updateProblemProgressOverwrite(progress, problemId, language, userCode, passed) ==
  IF problemId = NoProblem THEN progress
  ELSE
    LET hits == { k \in DOMAIN progress : progress[k].problemId = problemId }
        entry == [code |-> userCode, passed |-> passed]
    IN  IF hits # {}
          THEN LET x == CHOOSE k \in hits : \A j \in hits : k <= j
                   old == progress[x]
               IN  [progress EXCEPT ![x] =
                      [problemId |-> old.problemId,
                       solved |-> old.solved \/ passed,
                       languages |-> [l \in {language} |-> entry]]]
          ELSE Append(progress,
                      [problemId |-> problemId, solved |-> passed,
                       languages |-> [l \in {language} |-> entry]])

\* updateProblemProgress with solved taken from the latest attempt alone.
updateProblemProgressLatest(progress, problemId, language, userCode, passed) ==
  IF problemId = NoProblem THEN progress
  ELSE
    LET hits == { k \in DOMAIN progress : progress[k].problemId = problemId }
        entry == [code |-> userCode, passed |-> passed]
    IN  IF hits # {}
          THEN LET x == CHOOSE k \in hits : \A j \in hits : k <= j
                   old == progress[x]
               IN  [progress EXCEPT ![x] =
                      [problemId |-> old.problemId,
                       solved |-> passed,
                       languages |->
                         [l \in DOMAIN old.languages \cup {language} |->
                            IF l = language THEN entry ELSE old.languages[l]]]]
          ELSE Append(progress,
                      [problemId |-> problemId, solved |-> passed,
                       languages |-> [l \in {language} |-> entry]])

updateProblemProgress(progress, problemId, language, userCode, passed) ==
  IF problemId = NoProblem THEN progress
  ELSE
    LET hits == { k \in DOMAIN progress : progress[k].problemId = problemId }
        entry == [code |-> userCode, passed |-> passed]
    IN  IF hits # {}
          THEN LET x == CHOOSE k \in hits : \A j \in hits : k <= j
                   old == progress[x]
               IN  [progress EXCEPT ![x] =
                      [problemId |-> old.problemId,
                       solved |-> old.solved \/ passed,
                       languages |->
                         [l \in DOMAIN old.languages \cup {language} |->
                            IF l = language THEN entry ELSE old.languages[l]]]]
          ELSE Append(progress,
                      [problemId |-> problemId, solved |-> passed,
                       languages |-> [l \in {language} |-> entry]])

\* ------------------------------------------------------------------ getHeadlessExecutor

GatewayCall(language, source, stdin) ==
  [language |-> language, source |-> source, stdin |-> stdin]

\* `//-compile\n${code}` and `//-run\n${code}`
CompileSource(codeToRun) == << CompileMarker >> \o codeToRun

RunSource(codeToRun) == << RunMarker >> \o codeToRun

\* The wrapper that captures print output around the user's code.
wrappedCode(codeToRun) == << WrapHead >> \o codeToRun \o << WrapTail >>

\* The first headlessRunCode call of executor(code, stdin): where the
\* executor then waits, and the call in flight.
ExecutorStart(language, codeToRun, stdin) ==
  IF supportedLanguages[language].needsCompilation
    THEN [pc |-> "compile", call |-> GatewayCall(language, CompileSource(codeToRun), None)]
    ELSE [pc |-> "exec", call |-> GatewayCall(language, codeToRun, None)]

\* ExecutorResume without the check of the runtime before the second
\* interpreted run.
ExecutorResumeAnyRuntime(language, pc, codeToRun, stdin, r) ==
  IF pc = "compile"
    THEN IF r.resultType = "complete" /\ r.exitCode # 0
           THEN [done |-> TRUE, result |-> r]
           ELSE [done |-> FALSE, pc |-> "run",
                 call |-> GatewayCall(language, RunSource(codeToRun), None)]
  ELSE IF pc = "exec"
    THEN IF /\ r.resultType = "complete"
            /\ r.stdout = << "None" >>
            /\ Includes(codeToRun, PrintKinds)
           THEN [done |-> FALSE, pc |-> "retry",
                 call |-> GatewayCall(language, wrappedCode(codeToRun), None)]
           ELSE [done |-> TRUE, result |-> r]
  ELSE [done |-> TRUE, result |-> r]

\* The executor's continuation when the call it waits for at pc returns r:
\* either it returns a result to its caller (done) or it issues another call.
ExecutorResume(language, pc, codeToRun, stdin, r) ==
  IF pc = "compile"
    THEN IF r.resultType = "complete" /\ r.exitCode # 0
           THEN [done |-> TRUE, result |-> r]
           ELSE [done |-> FALSE, pc |-> "run",
                 call |-> GatewayCall(language, RunSource(codeToRun), None)]
  ELSE IF pc = "exec"
    THEN IF /\ language = "python"
            /\ r.resultType = "complete"
            /\ r.stdout = << "None" >>
            /\ Includes(codeToRun, PrintKinds)
           THEN [done |-> FALSE, pc |-> "retry",
                 call |-> GatewayCall(language, wrappedCode(codeToRun), None)]
           ELSE [done |-> TRUE, result |-> r]
  ELSE [done |-> TRUE, result |-> r]

\* The other getHeadlessExecutor, whose executor takes the element to run on
\* and forwards stdin: its first call.
ExecutorStartRunElement(language, codeToRun, stdin) ==
  IF supportedLanguages[language].needsCompilation
    THEN [pc |-> "compile",
          call |-> GatewayCall(language, CompileSource(codeToRun), Some(<< >>))]
    ELSE [pc |-> "exec", call |-> GatewayCall(language, codeToRun, stdin)]

\* Its continuation: compileResult.exitCode !== 0 returns the compile result,
\* and a result without an exitCode compares unequal to 0.
ExecutorResumeRunElement(language, pc, codeToRun, stdin, r) ==
  IF pc = "compile" /\ r.resultType = "complete" /\ r.exitCode = 0
    THEN [done |-> FALSE, pc |-> "run",
          call |-> GatewayCall(language, RunSource(codeToRun), stdin)]
    ELSE [done |-> TRUE, result |-> r]

\* ------------------------------------------------------------------ checkCode

MsgSystemError == "There was a system error running your program."

MsgTerminated == "Your program was terminated early."

MsgProgramError == "Your program had an error."

MsgMismatch == "Your output didn't match what we expected."

MsgUnexpected == "An unexpected error occurred while checking your code."

MsgCompilationFailed == "Compilation failed."

\* The source checkCode runs for one test case: the user's code with the test
\* case's literal substituted for the call the problem's pattern matches.
CodeToRun(userCode, problemId, language, description) ==
  IF problemId = "two-sum" /\ description.kind = "nums"
    THEN IF language = "python"
           THEN LET c == ReplaceAll(userCode, "pyTwoSum", description.lit)
                IN  IF Includes(c, {"pyTwoSum"}) THEN c
                    ELSE Append(c, Tok("pyTwoSum", description.lit))
         ELSE IF language = "quickjs"
           THEN LET c == ReplaceAll(userCode, "jsTwoSum", description.lit)
                IN  IF Includes(c, {"jsTwoSum"}) THEN c
                    ELSE Append(c, Tok("jsTwoSum", description.lit))
         ELSE IF language = "clangpp"
           THEN ReplaceAll(userCode, "cppTwoSum", description.lit)
         ELSE userCode
  ELSE IF problemId = "valid-parentheses" /\ description.kind = "s"
    THEN IF language = "python"
           THEN LET c == ReplaceAll(userCode, "pyIsValid", description.lit)
                IN  IF Includes(c, {"pyIsValid"}) THEN c
                    ELSE Append(c, Tok("pyIsValid", description.lit))
         ELSE IF language = "quickjs"
           THEN LET c == ReplaceAll(userCode, "jsIsValid", description.lit)
                IN  IF Includes(c, {"jsIsValid"}) THEN c
                    ELSE Append(c, Tok("jsIsValid", description.lit))
         ELSE IF language = "clangpp"
           THEN ReplaceAll(userCode, "cppIsValid", description.lit)
         ELSE userCode
  ELSE userCode

\* testCase.stdin ? testCase.stdin + '\n' : ''
PrepareStdin(testCase) ==
  IF Truthy(testCase.stdin) THEN testCase.stdin[1] \o << "\n" >> ELSE << >>

Verdict(status, feedback) == [status |-> status, feedback |-> feedback]

\* Classify with the test for a missing expectation moved to the front.
ClassifyExpectationFirst(r, expectedOutput) ==
  IF ~Truthy(expectedOutput)
    THEN Some(Verdict("pass", None))
  ELSE IF r.resultType = "crash"
    THEN Some(Verdict("fail", Some(TestFeedback(MsgSystemError, None, None, None))))
  ELSE IF r.resultType = "terminated"
    THEN Some(Verdict("fail", Some(TestFeedback(MsgTerminated, None, None, None))))
  ELSE IF r.resultType = "complete" /\ r.exitCode # 0
    THEN Some(Verdict("fail", Some(TestFeedback(MsgProgramError, Some(r.tty), None, None))))
  ELSE IF r.resultType = "complete" /\ Trim(r.stdout) = Trim(expectedOutput[1])
    THEN Some(Verdict("pass", None))
  ELSE IF r.resultType = "complete"
    THEN Some(Verdict("fail",
           Some(TestFeedback(MsgMismatch, None, expectedOutput, Some(r.stdout)))))
  ELSE None

\* Classify without the branch for a terminated result.
ClassifyNoTerminated(r, expectedOutput) ==
  IF r.resultType = "crash"
    THEN Some(Verdict("fail", Some(TestFeedback(MsgSystemError, None, None, None))))
  ELSE IF r.resultType = "complete" /\ r.exitCode # 0
    THEN Some(Verdict("fail", Some(TestFeedback(MsgProgramError, Some(r.tty), None, None))))
  ELSE IF ~Truthy(expectedOutput)
    THEN Some(Verdict("pass", None))
  ELSE IF r.resultType = "complete" /\ Trim(r.stdout) = Trim(expectedOutput[1])
    THEN Some(Verdict("pass", None))
  ELSE IF r.resultType = "complete"
    THEN Some(Verdict("fail",
           Some(TestFeedback(MsgMismatch, None, expectedOutput, Some(r.stdout)))))
  ELSE None

\* Classify reporting stderr instead of the terminal transcript.
ClassifyStderrOnly(r, expectedOutput) ==
  IF r.resultType = "crash"
    THEN Some(Verdict("fail", Some(TestFeedback(MsgSystemError, None, None, None))))
  ELSE IF r.resultType = "terminated"
    THEN Some(Verdict("fail", Some(TestFeedback(MsgTerminated, None, None, None))))
  ELSE IF r.resultType = "complete" /\ r.exitCode # 0
    THEN Some(Verdict("fail", Some(TestFeedback(MsgProgramError, Some(r.stderr), None, None))))
  ELSE IF ~Truthy(expectedOutput)
    THEN Some(Verdict("pass", None))
  ELSE IF r.resultType = "complete" /\ Trim(r.stdout) = Trim(expectedOutput[1])
    THEN Some(Verdict("pass", None))
  ELSE IF r.resultType = "complete"
    THEN Some(Verdict("fail",
           Some(TestFeedback(MsgMismatch, None, expectedOutput, Some(r.stdout)))))
  ELSE None

\* Classify holding a missing expectation to mean that nothing is printed.
ClassifyEmptyMeansSilent(r, expectedOutput) ==
  IF r.resultType = "crash"
    THEN Some(Verdict("fail", Some(TestFeedback(MsgSystemError, None, None, None))))
  ELSE IF r.resultType = "terminated"
    THEN Some(Verdict("fail", Some(TestFeedback(MsgTerminated, None, None, None))))
  ELSE IF r.resultType = "complete" /\ r.exitCode # 0
    THEN Some(Verdict("fail", Some(TestFeedback(MsgProgramError, Some(r.tty), None, None))))
  ELSE IF r.resultType = "complete" /\ Trim(r.stdout) = Trim(OrElse(expectedOutput, None))
    THEN Some(Verdict("pass", None))
  ELSE IF r.resultType = "complete"
    THEN Some(Verdict("fail",
           Some(TestFeedback(MsgMismatch, None, expectedOutput, Some(r.stdout)))))
  ELSE None

\* Classify comparing the texts as they are, white space at the ends included.
ClassifyNoTrim(r, expectedOutput) ==
  IF r.resultType = "crash"
    THEN Some(Verdict("fail", Some(TestFeedback(MsgSystemError, None, None, None))))
  ELSE IF r.resultType = "terminated"
    THEN Some(Verdict("fail", Some(TestFeedback(MsgTerminated, None, None, None))))
  ELSE IF r.resultType = "complete" /\ r.exitCode # 0
    THEN Some(Verdict("fail", Some(TestFeedback(MsgProgramError, Some(r.tty), None, None))))
  ELSE IF ~Truthy(expectedOutput)
    THEN Some(Verdict("pass", None))
  ELSE IF r.resultType = "complete" /\ r.stdout = expectedOutput[1]
    THEN Some(Verdict("pass", None))
  ELSE IF r.resultType = "complete"
    THEN Some(Verdict("fail",
           Some(TestFeedback(MsgMismatch, None, expectedOutput, Some(r.stdout)))))
  ELSE None

\* The setTestStatus call checkCode makes for a result, if it makes one.
Classify(r, expectedOutput) ==
  IF r.resultType = "crash"
    THEN Some(Verdict("fail", Some(TestFeedback(MsgSystemError, None, None, None))))
  ELSE IF r.resultType = "terminated"
    THEN Some(Verdict("fail", Some(TestFeedback(MsgTerminated, None, None, None))))
  ELSE IF r.resultType = "complete" /\ r.exitCode # 0
    THEN Some(Verdict("fail", Some(TestFeedback(MsgProgramError, Some(r.tty), None, None))))
  ELSE IF ~Truthy(expectedOutput)
    THEN Some(Verdict("pass", None))
  ELSE IF r.resultType = "complete" /\ Trim(r.stdout) = Trim(expectedOutput[1])
    THEN Some(Verdict("pass", None))
  ELSE IF r.resultType = "complete"
    THEN Some(Verdict("fail",
           Some(TestFeedback(MsgMismatch, None, expectedOutput, Some(r.stdout)))))
  ELSE None

\* SettleCase that classifies only the first result a test case receives.
SettleCaseOnce(tcs, testCase, r) ==
  LET stored == setResults(tcs, testCase.id, r)
      v == Classify(r, testCase.expectedOutput)
      seen == \E k \in DOMAIN tcs : tcs[k].id = testCase.id /\ tcs[k].result # None
  IN  IF v = None \/ seen THEN stored
      ELSE setTestStatus(stored, testCase.id, v[1].status, v[1].feedback)

\* setResults, then the setTestStatus the result calls for.
SettleCase(tcs, testCase, r) ==
  LET stored == setResults(tcs, testCase.id, r)
      v == Classify(r, testCase.expectedOutput)
  IN  IF v = None THEN stored
      ELSE setTestStatus(stored, testCase.id, v[1].status, v[1].feedback)

\* for (const testCase of list) setTestStatus(testCase.id, status, feedback),
\* from the k-th test case of the list on.
RECURSIVE SetAll(_, _, _, _, _)
SetAll(tcs, list, k, status, feedback) ==
  IF k > Len(list) THEN tcs
  ELSE SetAll(setTestStatus(tcs, list[k].id, status, feedback),
              list, k + 1, status, feedback)

\* FailAll with the loop started one test case late.
FailAllButFirst(tcs, snap) ==
  SetAll(tcs, snap, 2, "fail", Some(TestFeedback(MsgUnexpected, None, None, None)))

\* The catch block: every test case of the snapshot fails.
FailAll(tcs, snap) ==
  SetAll(tcs, snap, 1, "fail", Some(TestFeedback(MsgUnexpected, None, None, None)))

\* ------------------------------------------------------------------ state

VARIABLES
  code,             \* store: editor text
  activeLanguage,   \* store
  testCases,        \* store: sequence of TestCaseState
  currentProblem,   \* store: id of the current problem, or NoProblem
  userProgress,     \* store: sequence of UserProblemProgress
  isRunning,        \* RightPane state
  output,           \* RightPane state
  isChecking,       \* TestResults state
  tasks,            \* the asynchronous handler invocations
  nextId,           \* the next identifier uuidv4() hands out
  edits             \* number of store edits made by the user

vars ==
  << code, activeLanguage, testCases, currentProblem, userProgress,
     isRunning, output, isChecking, tasks, nextId, edits >>

Tasks == 1 .. MaxTasks

\* Where a handler waits for headlessRunCode.
GatewayPcs == {"compile", "run", "exec", "retry"}

\* The text the user may type into the editor.
UserCodes == { << >>, << Tok("print", 0) >> }

NoTask ==
  [kind |-> "none", pc |-> "idle", code |-> << >>, lang |-> "python",
   prob |-> NoProblem, snap |-> << >>, i |-> 0, codeToRun |-> << >>,
   stdin |-> None, call |-> None, compiles |-> 0, runs |-> 0, ncalls |-> 0,
   compileFailed |-> None, threw |-> FALSE, between |-> None]

InFlight == { t \in Tasks : tasks[t].pc \in GatewayPcs }

\* Handler invocations take the task slots in order.
FreeSlot(t) ==
  /\ tasks[t].kind = "none"
  /\ \A u \in Tasks : u < t => tasks[u].kind # "none"

IsCompileCall(call) == call.source # << >> /\ Head(call.source) = CompileMarker

IsRunCall(call) == call.source # << >> /\ Head(call.source) = RunMarker

\* The task after it has issued the gateway call `step` describes.
Issue(task, step) ==
  [task EXCEPT !.pc = step.pc, !.call = Some(step.call),
               !.compiles = @ + (IF IsCompileCall(step.call) THEN 1 ELSE 0),
               !.runs = @ + (IF IsRunCall(step.call) THEN 1 ELSE 0),
               !.ncalls = @ + 1,
               !.between = IF IsCompileCall(step.call) THEN None ELSE @]

\* History: the tasks after task t ran to its next await. A call it has just
\* issued is noted in every other task that waits for its compile-mode call,
\* as the latest call issued since that compile-mode call.
NoteIssue(ts, t) ==
  IF ts[t].pc \notin GatewayPcs THEN ts
  ELSE [u \in Tasks |->
          IF u # t /\ ts[u].pc = "compile"
            THEN [ts[u] EXCEPT !.between = ts[t].call]
            ELSE ts[u]]

\* History: the exit code of a compile-mode call that came back completed
\* with a non-zero exit code.
NoteCompile(task, r) ==
  IF task.pc = "compile" /\ r.resultType = "complete" /\ r.exitCode # 0
    THEN [task EXCEPT !.compileFailed = Some(r.exitCode)]
    ELSE task

\* The task after the promise of its handler's checkCode/executor settled.
Settled(task) ==
  [task EXCEPT !.pc = IF task.kind = "runTests" THEN "timeout" ELSE "done",
               !.call = None, !.codeToRun = << >>, !.stdin = None,
               !.between = None]

\* checkCode's for loop from test case k on, up to its next await: the store's
\* test cases and the task afterwards.
LoopFrom(tcs, task, k) ==
  IF k > Len(task.snap)
    THEN [tcs |-> tcs, task |-> Settled(task)]
    ELSE LET testCase == task.snap[k]
             c == CodeToRun(task.code, task.prob, task.lang, testCase.description)
             stdin == Some(PrepareStdin(testCase))
         IN  [tcs |-> setTestStatus(tcs, testCase.id, "checking", None),
              task |-> Issue([task EXCEPT !.i = k, !.codeToRun = c,
                                          !.stdin = stdin, !.ncalls = 0],
                             ExecutorStart(task.lang, c, stdin))]

\* checkCode(userCode) from its call to its first await. getHeadlessExecutor
\* throws on a language without an entry, inside the try block.
checkCode(tcs, task, userCode) ==
  LET started == [task EXCEPT !.code = userCode, !.lang = activeLanguage,
                              !.prob = currentProblem, !.snap = tcs]
  IN  IF activeLanguage \in DOMAIN supportedLanguages
        THEN LoopFrom(tcs, started, 1)
        ELSE [tcs |-> FailAll(tcs, tcs), task |-> Settled(started)]

Init ==
  /\ activeLanguage = "python"
  /\ currentProblem = twoSumProblem.id
  /\ testCases = InstantiateTemplates(twoSumProblem, 1)
  /\ code = twoSumProblem.starterCode["python"]
  /\ userProgress = << >>
  /\ isRunning = FALSE
  /\ output = << >>
  /\ isChecking = FALSE
  /\ tasks = [t \in Tasks |-> NoTask]
  /\ nextId = Len(testCases) + 1
  /\ edits = 0

\* Any problem, language and editor text the user can have set up before the
\* first click on Run Code, Submit or Check All.
InitAny ==
  /\ \E problem \in problems, language \in Languages :
       /\ activeLanguage = language
       /\ currentProblem = problem.id
       /\ testCases = InstantiateTemplates(problem, 1)
       /\ code \in UserCodes \cup { problem.starterCode[language] }
  /\ userProgress = << >>
  /\ isRunning = FALSE
  /\ output = << >>
  /\ isChecking = FALSE
  /\ tasks = [t \in Tasks |-> NoTask]
  /\ nextId = Len(testCases) + 1
  /\ edits = 0

\* InitAny, with the store's activeLanguage possibly a language identifier
\* that has no entry in supportedLanguages.
InitConfig ==
  /\ \E problem \in problems, language \in Languages \cup {UnknownLanguage} :
       /\ activeLanguage = language
       /\ currentProblem = problem.id
       /\ testCases = InstantiateTemplates(problem, 1)
       /\ code \in UserCodes \cup
                  (IF language \in Languages THEN { problem.starterCode[language] }
                                             ELSE { })
  /\ userProgress = << >>
  /\ isRunning = FALSE
  /\ output = << >>
  /\ isChecking = FALSE
  /\ tasks = [t \in Tasks |-> NoTask]
  /\ nextId = Len(testCases) + 1
  /\ edits = 0

\* ------------------------------------------------------------------ user edits

setCode(c) ==
  /\ edits < MaxEdits
  /\ c # code
  /\ code' = c
  /\ edits' = edits + 1
  /\ UNCHANGED << activeLanguage, testCases, currentProblem, userProgress,
                  isRunning, output, isChecking, tasks, nextId >>

setActiveLanguage(language) ==
  /\ edits < MaxEdits
  /\ language # activeLanguage
  /\ activeLanguage' = language
  /\ code' = IF currentProblem # NoProblem
               THEN OrElse(loadUserCode(userProgress, currentProblem, language),
                           Some(getProblemById(currentProblem).starterCode[language]))
               ELSE code
  /\ edits' = edits + 1
  /\ UNCHANGED << testCases, currentProblem, userProgress,
                  isRunning, output, isChecking, tasks, nextId >>

setCurrentProblem(problem) ==
  /\ edits < MaxEdits
  /\ currentProblem' = problem.id
  /\ testCases' = InstantiateTemplates(problem, nextId)
  /\ nextId' = nextId + Len(testCases')
  /\ code' = OrElse(loadUserCode(userProgress, problem.id, activeLanguage),
                    Some(problem.starterCode[activeLanguage]))
  /\ edits' = edits + 1
  /\ UNCHANGED << activeLanguage, userProgress, isRunning, output, isChecking, tasks >>

\* ------------------------------------------------------------------ RightPane

\* Run Code: runCode up to its await of executor(code).
runCode(t) ==
  /\ FreeSlot(t)
  /\ ~isRunning
  /\ LET task == [NoTask EXCEPT !.kind = "runCode", !.code = code,
                                !.lang = activeLanguage, !.codeToRun = code]
     IN  IF activeLanguage \in DOMAIN supportedLanguages
           THEN /\ isRunning' = TRUE
                /\ output' = << >>
                /\ tasks' = NoteIssue([tasks EXCEPT ![t] =
                     Issue(task, ExecutorStart(activeLanguage, code, None))], t)
           ELSE /\ isRunning' = FALSE
                /\ output' = << "Error: ", "TypeError" >>
                /\ tasks' = [tasks EXCEPT ![t] = Settled(task)]
  /\ UNCHANGED << code, activeLanguage, testCases, currentProblem, userProgress,
                  isChecking, nextId, edits >>

\* The test cases runTests adds when the rendered list is empty.
InitialTestCases(rendered, problemId, first) ==
  IF Len(rendered) # 0 THEN << >>
  ELSE IF problemId # NoProblem /\ getProblemById(problemId).testCases # None
    THEN LET ts == getProblemById(problemId).testCases[1]
         IN  [k \in DOMAIN ts |->
                TestCaseState(first + k - 1, ts[k].description,
                              Some(OrElse(ts[k].stdin, None)),
                              Some(OrElse(ts[k].expectedOutput, None)))]
    ELSE << TestCaseState(first, Desc("plain", 1), Some(<< >>), Some(<< >>)) >>

\* Submit: runTests up to its await of the dynamic import. The list it sets
\* to 'checking' is the one it was rendered with.
runTests(t) ==
  /\ FreeSlot(t)
  /\ ~isRunning
  /\ LET added == InitialTestCases(testCases, currentProblem, nextId)
     IN  /\ testCases' = SetAll(testCases \o added, testCases, 1, "checking", None)
         /\ nextId' = nextId + Len(added)
  /\ tasks' = [tasks EXCEPT ![t] =
       [NoTask EXCEPT !.kind = "runTests", !.pc = "import", !.code = code]]
  /\ UNCHANGED << code, activeLanguage, currentProblem, userProgress,
                  isRunning, output, isChecking, edits >>

\* The import resolves: runTests calls checkCode(code) and awaits it.
importDone(t) ==
  /\ tasks[t].pc = "import"
  /\ LET r == checkCode(testCases, tasks[t], tasks[t].code)
     IN  /\ testCases' = r.tcs
         /\ tasks' = NoteIssue([tasks EXCEPT ![t] = r.task], t)
  /\ UNCHANGED << code, activeLanguage, currentProblem, userProgress,
                  isRunning, output, isChecking, nextId, edits >>

\* AllPassed with some() in the place of every().
SomePassed(tcs) == \E k \in DOMAIN tcs : tcs[k].status = "pass"

\* currentTestCases.every(tc => tc.status === 'pass')
AllPassed(tcs) == \A k \in DOMAIN tcs : tcs[k].status = "pass"

\* The setTimeout callback of runTests.
timeout(t) ==
  /\ tasks[t].pc = "timeout"
  /\ userProgress' = updateProblemProgress(userProgress, currentProblem,
                                           activeLanguage, code, AllPassed(testCases))
  /\ tasks' = [tasks EXCEPT ![t].pc = "done"]
  /\ UNCHANGED << code, activeLanguage, testCases, currentProblem,
                  isRunning, output, isChecking, nextId, edits >>

\* ------------------------------------------------------------------ TestResults

\* handleCheckAll behind a button that isChecking does not disable.
handleCheckAllUnguarded(t) ==
  /\ FreeSlot(t)
  /\ ~Blank(code)
  /\ LET r == checkCode(testCases, [NoTask EXCEPT !.kind = "checkAll"], code)
     IN  /\ testCases' = r.tcs
         /\ tasks' = NoteIssue([tasks EXCEPT ![t] = r.task], t)
         /\ isChecking' = (r.task.pc # "done")
  /\ UNCHANGED << code, activeLanguage, currentProblem, userProgress,
                  isRunning, output, nextId, edits >>

\* Check All: handleCheckAll up to the first await inside checkCode(code).
handleCheckAll(t) ==
  /\ FreeSlot(t)
  /\ ~isChecking
  /\ ~Blank(code)
  /\ LET r == checkCode(testCases, [NoTask EXCEPT !.kind = "checkAll"], code)
     IN  /\ testCases' = r.tcs
         /\ tasks' = NoteIssue([tasks EXCEPT ![t] = r.task], t)
         /\ isChecking' = (r.task.pc # "done")
  /\ UNCHANGED << code, activeLanguage, currentProblem, userProgress,
                  isRunning, output, nextId, edits >>

\* ------------------------------------------------------------------ execution gateway

\* What runCode shows for a result.
RunOutput(r) ==
  IF r.resultType = "complete"
    THEN OrElse(Some(r.stdout), Some(r.stderr))
    ELSE << "Error: Could not complete execution" >>

\* The pending headlessRunCode call of task t returns r; the handler runs to
\* its next await or to its end.
gatewayReturn(t, r) ==
  /\ tasks[t].pc \in GatewayPcs
  /\ tasks[t].kind # "runElement"
  /\ LET task == tasks[t]
         ex == ExecutorResume(task.lang, task.pc, task.codeToRun, task.stdin, r)
     IN  IF ~ex.done
           THEN /\ tasks' = NoteIssue([tasks EXCEPT ![t] = Issue(task, ex)], t)
                /\ UNCHANGED << testCases, isRunning, output, isChecking >>
         ELSE IF task.kind = "runCode"
           THEN /\ output' = RunOutput(ex.result)
                /\ isRunning' = FALSE
                /\ tasks' = [tasks EXCEPT ![t] = Settled(NoteCompile(task, r))]
                /\ UNCHANGED << testCases, isChecking >>
         ELSE LET next == LoopFrom(SettleCase(testCases, task.snap[task.i], ex.result),
                                   NoteCompile(task, r), task.i + 1)
              IN  /\ testCases' = next.tcs
                  /\ tasks' = NoteIssue([tasks EXCEPT ![t] = next.task], t)
                  /\ isChecking' = IF task.kind = "checkAll" /\ next.task.pc = "done"
                                     THEN FALSE ELSE isChecking
                  /\ UNCHANGED << isRunning, output >>
  /\ UNCHANGED << code, activeLanguage, currentProblem, userProgress, nextId, edits >>

\* The pending headlessRunCode call of task t rejects.
gatewayThrow(t) ==
  /\ tasks[t].pc \in GatewayPcs
  /\ tasks[t].kind # "runElement"
  /\ LET task == tasks[t]
     IN  IF task.kind = "runCode"
           THEN /\ output' = << "Error: ", "rejected" >>
                /\ isRunning' = FALSE
                /\ tasks' = [tasks EXCEPT ![t] = Settled([task EXCEPT !.threw = TRUE])]
                /\ UNCHANGED << testCases, isChecking >>
           ELSE /\ testCases' = FailAll(testCases, task.snap)
                /\ tasks' = [tasks EXCEPT ![t] = Settled([task EXCEPT !.threw = TRUE])]
                /\ isChecking' = IF task.kind = "checkAll" THEN FALSE ELSE isChecking
                /\ UNCHANGED << isRunning, output >>
  /\ UNCHANGED << code, activeLanguage, currentProblem, userProgress, nextId, edits >>

\* The stdin a caller hands to the executor that forwards it.
Stdins == { << >>, << "1 2" >> }

\* A caller invokes the executor that takes the element, on the editor's code.
executeRunElement(t, stdin) ==
  /\ FreeSlot(t)
  /\ tasks' = [tasks EXCEPT ![t] =
       Issue([NoTask EXCEPT !.kind = "runElement", !.code = code,
                            !.lang = activeLanguage, !.codeToRun = code,
                            !.stdin = Some(stdin)],
             ExecutorStartRunElement(activeLanguage, code, Some(stdin)))]
  /\ UNCHANGED << code, activeLanguage, testCases, currentProblem, userProgress,
                 isRunning, output, isChecking, nextId, edits >>

\* The pending runElement.headlessRunCode call of task t returns r.
runElementReturn(t, r) ==
  /\ tasks[t].pc \in GatewayPcs
  /\ tasks[t].kind = "runElement"
  /\ LET task == tasks[t]
         ex == ExecutorResumeRunElement(task.lang, task.pc, task.codeToRun,
                                        task.stdin, r)
     IN  tasks' = [tasks EXCEPT ![t] =
           IF ex.done THEN Settled(NoteCompile(task, r)) ELSE Issue(task, ex)]
  /\ UNCHANGED << code, activeLanguage, testCases, currentProblem, userProgress,
                 isRunning, output, isChecking, nextId, edits >>

\* The pending runElement.headlessRunCode call of task t rejects.
runElementThrow(t) ==
  /\ tasks[t].pc \in GatewayPcs
  /\ tasks[t].kind = "runElement"
  /\ tasks' = [tasks EXCEPT ![t] = Settled([tasks[t] EXCEPT !.threw = TRUE])]
  /\ UNCHANGED << code, activeLanguage, testCases, currentProblem, userProgress,
                 isRunning, output, isChecking, nextId, edits >>

\* ------------------------------------------------------------------ specification

Next ==
  \/ \E c \in UserCodes : setCode(c)
  \/ \E language \in Languages : setActiveLanguage(language)
  \/ \E problem \in problems : setCurrentProblem(problem)
  \/ \E t \in Tasks : runCode(t)
  \/ \E t \in Tasks : runTests(t)
  \/ \E t \in Tasks : importDone(t)
  \/ \E t \in Tasks : timeout(t)
  \/ \E t \in Tasks : handleCheckAll(t)
  \/ \E t \in Tasks, r \in CoreResults : gatewayReturn(t, r)
  \/ \E t \in Tasks : gatewayThrow(t)

\* Concurrent handler invocations and edits from the state after mount.
Spec == Init /\ [][Next]_vars

\* One handler invocation, from any set-up, against every gateway answer.
NextOne ==
  \/ runCode(1)
  \/ runTests(1)
  \/ importDone(1)
  \/ timeout(1)
  \/ handleCheckAll(1)
  \/ \E r \in ResultsDomain : gatewayReturn(1, r)
  \/ gatewayThrow(1)

SpecOne == InitAny /\ [][NextOne]_vars

\* The store's updateProblemProgress(passed), called on its own.
callUpdateProblemProgress(passed) ==
  /\ userProgress' = updateProblemProgress(userProgress, currentProblem,
                                           activeLanguage, code, passed)
  /\ UNCHANGED << code, activeLanguage, testCases, currentProblem,
                  isRunning, output, isChecking, tasks, nextId, edits >>

NextStore ==
  \/ \E c \in UserCodes : setCode(c)
  \/ \E language \in Languages : setActiveLanguage(language)
  \/ \E problem \in problems : setCurrentProblem(problem)
  \/ \E passed \in BOOLEAN : callUpdateProblemProgress(passed)

\* The store's setters and updateProblemProgress, called in any order.
SpecStore == InitAny /\ [][NextStore]_vars

\* One handler invocation, the active language possibly without an entry.
SpecConfig == InitConfig /\ [][NextOne]_vars

\* One invocation of either executor, against every gateway answer.
NextExecutor ==
  \/ runCode(1)
  \/ \E stdin \in Stdins : executeRunElement(1, stdin)
  \/ \E r \in ResultsDomain : gatewayReturn(1, r)
  \/ \E r \in ResultsDomain : runElementReturn(1, r)
  \/ gatewayThrow(1)
  \/ runElementThrow(1)

SpecExecutor == InitAny /\ [][NextExecutor]_vars

\* The answers kept where the pending calls are all answered in the end:
\* CoreResults and a result of a kind outside the three checkCode names.
LiveResults == CoreResults \cup { TimeoutResult }

\* Submissions started while others are in flight.
NextLive ==
  \/ \E t \in Tasks : runTests(t)
  \/ \E t \in Tasks : handleCheckAll(t)
  \/ \E t \in Tasks : importDone(t)
  \/ \E t \in Tasks : timeout(t)
  \/ \E t \in Tasks, r \in LiveResults : gatewayReturn(t, r)
  \/ \E t \in Tasks : gatewayThrow(t)

\* Every pending gateway call returns or rejects, every pending import
\* resolves and every scheduled timer fires.
Fairness ==
  \A t \in Tasks :
    /\ WF_vars((\E r \in LiveResults : gatewayReturn(t, r)) \/ gatewayThrow(t))
    /\ WF_vars(importDone(t))
    /\ WF_vars(timeout(t))

SpecLive == Init /\ [][NextLive]_vars /\ Fairness

\* Check All and Submit pressed at any time, each gateway call answered by a
\* completed result or rejected.
NextCheckAll ==
  \/ \E t \in Tasks : handleCheckAll(t)
  \/ \E t \in Tasks : runTests(t)
  \/ \E t \in Tasks : importDone(t)
  \/ \E t \in Tasks : timeout(t)
  \/ \E t \in Tasks : gatewayReturn(t, CompleteResult(0, << "[0, 1]" >>, << >>))
  \/ \E t \in Tasks : gatewayThrow(t)

SpecCheckAll == Init /\ [][NextCheckAll]_vars

\* One submission with the user's edits of the store while it is in flight.
NextEdit ==
  \/ \E c \in UserCodes : setCode(c)
  \/ \E language \in Languages : setActiveLanguage(language)
  \/ \E problem \in problems : setCurrentProblem(problem)
  \/ runTests(1)
  \/ importDone(1)
  \/ timeout(1)
  \/ handleCheckAll(1)
  \/ \E r \in CoreResults : gatewayReturn(1, r)
  \/ gatewayThrow(1)

SpecEdit == InitAny /\ [][NextEdit]_vars

\* The answers kept where one submission follows another.
TwiceResults ==
  { TimeoutResult,
    CompleteResult(0, << "[0, 1]" >>, << >>),
    CompleteResult(0, << "None" >>, << >>),
    CompleteResult(2, << >>, << "error:" >>) }

\* No handler invocation is under way.
Quiet == \A t \in Tasks : tasks[t].pc \in {"idle", "done"}

\* Submit or Check All clicked once, and once more after the first has ended.
NextTwice ==
  \/ \E t \in 1 .. 2 : Quiet /\ runTests(t)
  \/ \E t \in 1 .. 2 : Quiet /\ handleCheckAll(t)
  \/ \E t \in 1 .. 2 : importDone(t)
  \/ \E t \in 1 .. 2 : timeout(t)
  \/ \E t \in 1 .. 2, r \in TwiceResults : gatewayReturn(t, r)
  \/ \E t \in 1 .. 2 : gatewayThrow(t)

SpecTwice == InitAny /\ [][NextTwice]_vars

\* ------------------------------------------------------------------ properties

\* The handlers that run checkCode.
CheckKinds == {"runTests", "checkAll"}

Checking == { k \in DOMAIN testCases : testCases[k].status = "checking" }

\* The promise of the checkCode call of task t has resolved.
Resolved(t) == tasks[t].kind \in CheckKinds /\ tasks[t].pc \in {"timeout", "done"}

\* The test case task t is working on, as the store holds it.
Current(t, tcs) == { k \in DOMAIN tcs : tcs[k].id = tasks[t].snap[tasks[t].i].id }

\* C1: at most one call into the execution gateway is in flight at any time,
\* whatever the interleaving of Submit, Check All and Run Code.
C1_AtMostOneGatewayCall == Cardinality(InFlight) <= 1

\* C2: at most one test case has status 'checking', on the Submit path as on
\* the Check All path.
C2_AtMostOneChecking == Cardinality(Checking) <= 1

\* C3: a gateway call that rejects while checkCode processes a test case is
\* caught: checkCode resolves (runTests goes on to its progress update), the
\* test case in flight fails with the unexpected-error message and no test
\* case of the submission is left 'checking'.
C3_GatewayThrowIsCaught ==
  \A t \in Tasks :
    (tasks[t].kind \in CheckKinds /\ tasks[t].threw) =>
      /\ Resolved(t)
      /\ tasks[t].kind = "runTests" /\ tasks[t].pc = "done" => Len(userProgress) = 1
      /\ Current(t, testCases) # {}
      /\ \A k \in Current(t, testCases) :
           /\ testCases[k].status = "fail"
           /\ testCases[k].feedback =
                Some(TestFeedback(MsgUnexpected, None, None, None))
      /\ Checking = {}

C3_Witness ==
  \E t \in Tasks :
    /\ tasks[t].kind = "runTests" /\ tasks[t].threw /\ tasks[t].pc = "done"
    /\ tasks[t].i = 1 /\ Len(tasks[t].snap) >= 2

\* C4: for a language that needs compilation, once a compile-mode call has
\* come back completed with a non-zero exit code, the submission has issued no
\* run-mode call, and when it ends every test case has failed with one and the
\* same feedback.
C4_CompileFailureShortCircuits ==
  \A t \in Tasks :
    ( /\ tasks[t].kind \in CheckKinds
      /\ supportedLanguages[tasks[t].lang].needsCompilation
      /\ tasks[t].compileFailed # None ) =>
      /\ tasks[t].runs = 0
      /\ Resolved(t) =>
           \A j, k \in DOMAIN testCases :
             /\ testCases[k].status = "fail"
             /\ testCases[j].feedback = testCases[k].feedback

\* C5: a clangpp submission through checkCode whose compile call came back
\* completed with exit code 2 ends with every test case failed for the reason
\* 'Compilation failed.' and without any run-mode call.
C5_CompilationFailedReason ==
  \A t \in Tasks :
    ( /\ Resolved(t)
      /\ tasks[t].lang = "clangpp"
      /\ tasks[t].compileFailed = Some(2) ) =>
      /\ tasks[t].runs = 0
      /\ \A k \in DOMAIN testCases :
           /\ testCases[k].status = "fail"
           /\ testCases[k].feedback # None
           /\ testCases[k].feedback[1].message = MsgCompilationFailed

\* The stdin a headlessRunCode call hands to the engine: none when the
\* argument is left out.
Received(call) == IF call.stdin = None THEN << >> ELSE call.stdin[1]

\* C6: the call that runs the program receives the test case's stdin followed
\* by a newline when the test case has a non-empty stdin and the empty string
\* otherwise; the compile-mode call receives empty stdin.
C6_StdinReachesGateway ==
  \A t \in Tasks :
    (tasks[t].kind \in CheckKinds /\ tasks[t].call # None) =>
      LET testCase == tasks[t].snap[tasks[t].i]
      IN  Received(tasks[t].call[1]) =
            IF tasks[t].pc # "compile" /\ testCase.stdin # None
                 /\ testCase.stdin[1] # << >>
              THEN Append(testCase.stdin[1], "\n")
              ELSE << >>

\* C7 as stated: for a language that needs no compilation, a test case takes
\* exactly one gateway call, whose source is the user's code unmodified.
C7_SingleCallUnmodifiedSource ==
  \A t \in Tasks :
    ( /\ tasks[t].kind \in CheckKinds
      /\ tasks[t].i >= 1
      /\ ~supportedLanguages[tasks[t].lang].needsCompilation ) =>
      /\ tasks[t].ncalls <= 1
      /\ tasks[t].call # None => tasks[t].call[1].source = tasks[t].code

\* The executor of task t hands r, the answer to its pending call, to checkCode.
Delivers(t, r) ==
  /\ tasks[t].kind \in CheckKinds
  /\ tasks[t].pc \in GatewayPcs
  /\ ExecutorResume(tasks[t].lang, tasks[t].pc, tasks[t].codeToRun,
                    tasks[t].stdin, r).done
  /\ gatewayReturn(t, r)

\* After the step, the store holds the test case task t worked on with this
\* status and feedback.
SetTo(t, status, feedback) ==
  /\ Current(t, testCases') # {}
  /\ \A k \in Current(t, testCases') :
       /\ testCases'[k].status = status
       /\ testCases'[k].feedback = feedback

\* C7 amended: for a language that needs no compilation, the first call of a
\* test case carries the source checkCode prepared for it (the user's code
\* with the test case's literal substituted), without marker; a second call,
\* that source inside the stdout-capturing wrapper, is made only for python,
\* when the first call completed with stdout 'None' and the source contains
\* 'print('; there is no third call, and the answer to the last call is the
\* result stored for the test case.
C7_Calls ==
  \A t \in Tasks :
    ( /\ tasks[t].kind \in CheckKinds
      /\ tasks[t].call # None
      /\ ~supportedLanguages[tasks[t].lang].needsCompilation ) =>
      LET prepared == CodeToRun(tasks[t].code, tasks[t].prob, tasks[t].lang,
                                tasks[t].snap[tasks[t].i].description)
      IN  /\ tasks[t].call[1].language = tasks[t].lang
          /\ tasks[t].pc \in {"exec", "retry"}
          /\ tasks[t].pc = "exec" =>
               /\ tasks[t].ncalls = 1
               /\ tasks[t].call[1].source = prepared
          /\ tasks[t].pc = "retry" =>
               /\ tasks[t].ncalls = 2
               /\ tasks[t].lang = "python"
               /\ Includes(prepared, PrintKinds)
               /\ tasks[t].call[1].source = << WrapHead >> \o prepared \o << WrapTail >>

C7_Answers ==
  \A t \in Tasks, r \in ResultsDomain :
    ( /\ tasks[t].kind \in CheckKinds
      /\ ~supportedLanguages[tasks[t].lang].needsCompilation
      /\ gatewayReturn(t, r) ) =>
      IF /\ tasks[t].pc = "exec" /\ tasks[t].lang = "python"
         /\ r.resultType = "complete" /\ r.stdout = << "None" >>
         /\ Includes(tasks[t].codeToRun, PrintKinds)
        THEN tasks'[t].pc = "retry" /\ tasks'[t].i = tasks[t].i
        ELSE /\ Current(t, testCases') # {}
             /\ \A k \in Current(t, testCases') : testCases'[k].result = Some(r)
             /\ tasks'[t].i # tasks[t].i \/ Resolved(t)'

C7_InterpretedCalls == []C7_Calls /\ [][C7_Answers]_vars

C7_Witness ==
  \E t \in Tasks :
    /\ tasks[t].kind \in CheckKinds /\ tasks[t].pc = "retry"
    /\ tasks[t].codeToRun # tasks[t].code

\* C8: when a crash result is returned for a test case, the test case is set
\* to fail with the system-error message and no error, expected or received
\* detail, whatever its expectedOutput.
C8_CrashFails ==
  [][ \A t \in Tasks, r \in ResultsDomain :
        (r.resultType = "crash" /\ Delivers(t, r)) =>
          SetTo(t, "fail", Some(TestFeedback(MsgSystemError, None, None, None))) ]_vars

C8_Witness ==
  \E k \in DOMAIN testCases :
    /\ testCases[k].result = Some(CrashResult)
    /\ testCases[k].status = "fail"
    /\ testCases[k].feedback = Some(TestFeedback(MsgSystemError, None, None, None))
    /\ ~Truthy(testCases[k].expectedOutput)

\* C9: when a terminated result is returned for a test case, the test case
\* is set to fail with the early-termination message, whatever its
\* expectedOutput.
C9_TerminatedFails ==
  [][ \A t \in Tasks, r \in ResultsDomain :
        (r.resultType = "terminated" /\ Delivers(t, r)) =>
          SetTo(t, "fail", Some(TestFeedback(MsgTerminated, None, None, None))) ]_vars

C9_Witness ==
  \E k \in DOMAIN testCases :
    /\ testCases[k].result = Some(TerminatedResult)
    /\ testCases[k].status = "fail"
    /\ testCases[k].feedback = Some(TestFeedback(MsgTerminated, None, None, None))
    /\ testCases[k].expectedOutput = None

\* C10: when a completed result with a non-zero exit code is returned for a
\* test case, the test case is set to fail with the program-error message and
\* feedback.error equal to the result's tty, whatever its expectedOutput and
\* whether or not stdout matches it.
C10_NonZeroExitFails ==
  [][ \A t \in Tasks, r \in ResultsDomain :
        (r.resultType = "complete" /\ r.exitCode # 0 /\ Delivers(t, r)) =>
          SetTo(t, "fail", Some(TestFeedback(MsgProgramError, Some(r.tty), None, None))) ]_vars

C10_Witness ==
  \E k \in DOMAIN testCases :
    /\ testCases[k].result # None
    /\ testCases[k].result[1].resultType = "complete"
    /\ testCases[k].result[1].exitCode # 0
    /\ Truthy(testCases[k].expectedOutput)
    /\ Trim(testCases[k].result[1].stdout) = Trim(testCases[k].expectedOutput[1])
    /\ testCases[k].status = "fail"
    /\ testCases[k].feedback =
         Some(TestFeedback(MsgProgramError, Some(testCases[k].result[1].tty), None, None))

\* The expectedOutput of the test case task t is working on.
Expected(t) == tasks[t].snap[tasks[t].i].expectedOutput

\* C11: when a completed result with exit code 0 is returned for a test case
\* whose expectedOutput is undefined or the empty string, the test case is set
\* to pass, whatever stdout contains.
C11_NoExpectationPasses ==
  [][ \A t \in Tasks, r \in ResultsDomain :
        ( /\ r.resultType = "complete" /\ r.exitCode = 0
          /\ Delivers(t, r)
          /\ Expected(t) \in {None, Some(<< >>)} ) =>
          SetTo(t, "pass", None) ]_vars

C11_Witness ==
  \E k \in DOMAIN testCases :
    /\ testCases[k].expectedOutput = Some(<< >>)
    /\ testCases[k].result # None
    /\ testCases[k].result[1].resultType = "complete"
    /\ testCases[k].result[1].exitCode = 0
    /\ testCases[k].result[1].stdout # << >>
    /\ testCases[k].status = "pass"

\* C12: when a completed result with exit code 0 is returned for a test case
\* with a defined, non-empty expectedOutput, the test case is set to pass if
\* stdout and expectedOutput are equal once white space is removed from both
\* ends of each, and otherwise to fail with feedback.expected the untrimmed
\* expectedOutput and feedback.received the untrimmed stdout.
C12_TrimmedComparison ==
  [][ \A t \in Tasks, r \in ResultsDomain :
        ( /\ r.resultType = "complete" /\ r.exitCode = 0
          /\ Delivers(t, r)
          /\ Expected(t) # None /\ Expected(t)[1] # << >> ) =>
          IF Trim(r.stdout) = Trim(Expected(t)[1])
            THEN SetTo(t, "pass", None)
            ELSE SetTo(t, "fail",
                       Some(TestFeedback(MsgMismatch, None,
                                         Some(Expected(t)[1]), Some(r.stdout)))) ]_vars

C12_Witness ==
  \E j, k \in DOMAIN testCases :
    /\ testCases[j].result = Some(CompleteResult(0, << "true", "\n" >>, << >>))
    /\ testCases[j].expectedOutput = Some(<< "true" >>)
    /\ testCases[j].status = "pass"
    /\ testCases[k].result = Some(CompleteResult(0, << "True", "\n" >>, << >>))
    /\ testCases[k].expectedOutput = Some(<< "true" >>)
    /\ testCases[k].status = "fail"
    /\ testCases[k].feedback =
         Some(TestFeedback(MsgMismatch, None, Some(<< "true" >>),
                           Some(<< "True", "\n" >>)))

\* C13: when a result of a kind other than complete, crash and terminated is
\* returned for a test case, the test case is set to fail.
C13_UnknownKindFails ==
  [][ \A t \in Tasks, r \in ResultsDomain :
        ( /\ r.resultType \notin {"complete", "crash", "terminated"}
          /\ Delivers(t, r) ) =>
          /\ Current(t, testCases') # {}
          /\ \A k \in Current(t, testCases') : testCases'[k].status = "fail" ]_vars

\* C14: within one submission, when checkCode is at test case j, every test
\* case before j in the list has had its result returned and has been set to
\* pass or fail, and no call has yet returned for a test case after j.
C14_StrictListOrder ==
  \A t \in Tasks :
    (tasks[t].kind \in CheckKinds /\ tasks[t].i >= 1) =>
      \A n \in DOMAIN tasks[t].snap, k \in DOMAIN testCases :
        testCases[k].id = tasks[t].snap[n].id =>
          /\ n < tasks[t].i =>
               /\ testCases[k].result # None
               /\ testCases[k].status \in {"pass", "fail"}
          /\ n > tasks[t].i => testCases[k].result = None

\* The entry updateProblemProgress has just written: the passed flag, the code
\* and the problem's solved flag after the step.
Written ==
  LET p == getProgressForProblem(userProgress', currentProblem)
  IN  IF p = None \/ activeLanguage \notin DOMAIN p[1].languages THEN None
      ELSE Some([passed |-> p[1].languages[activeLanguage].passed,
                 code |-> p[1].languages[activeLanguage].code,
                 solved |-> p[1].solved])

\* C15: when a Submit completes, the solved flag handed to the progress update
\* is true exactly when every test case in the store has status pass.
C15_SolvedIffAllPass ==
  [][ \A t \in Tasks :
        timeout(t) =>
          /\ Written # None
          /\ Written[1].passed =
               (\A k \in DOMAIN testCases : testCases[k].status = "pass") ]_vars

C15_Witness ==
  /\ Len(testCases) >= 2
  /\ \E j, k \in DOMAIN testCases :
       testCases[j].status = "pass" /\ testCases[k].status = "fail"
  /\ \E t \in Tasks : tasks[t].kind = "runTests" /\ tasks[t].pc = "done"
  /\ Len(userProgress) = 1
  /\ ~userProgress[1].solved

\* C16: a submission that evaluated no test case never marks the problem's
\* progress record solved.
C16_EmptySubmitNotSolved ==
  \A k \in DOMAIN userProgress :
    (userProgress[k].problemId = currentProblem /\ testCases = << >>) =>
      ~userProgress[k].solved

\* C17: the progress record written at the end of a Submit carries the problem
\* id, the language and the code that the submission took when it started and
\* tested, whatever the user edited while it was in flight.
C17_ProgressFromSnapshot ==
  [][ \A t \in Tasks :
        timeout(t) =>
          userProgress' = updateProblemProgress(userProgress, tasks[t].prob,
                                                tasks[t].lang, tasks[t].code,
                                                AllPassed(testCases)) ]_vars

\* C18: updateProblemProgress for the current problem and language leaves the
\* records of every other problem, and in the current problem's record the
\* sub-record of every other language, unchanged.
C18_ProgressFrame ==
  [][ \A k \in DOMAIN userProgress :
        /\ k \in DOMAIN userProgress'
        /\ userProgress'[k].problemId = userProgress[k].problemId
        /\ userProgress[k].problemId # currentProblem =>
             userProgress'[k] = userProgress[k]
        /\ \A l \in DOMAIN userProgress[k].languages :
             l # activeLanguage =>
               /\ l \in DOMAIN userProgress'[k].languages
               /\ userProgress'[k].languages[l] = userProgress[k].languages[l] ]_vars

C18_Witness ==
  \E k \in DOMAIN userProgress :
    \E l, m \in DOMAIN userProgress[k].languages :
      /\ l # m
      /\ userProgress[k].languages[l].passed
      /\ ~userProgress[k].languages[m].passed

\* C19: once a test case has been set to pass or fail in a submission, its
\* status and feedback do not change again in that submission.
C19_SettledStaysSettled ==
  [][ \A k \in DOMAIN testCases :
        testCases[k].status \in {"pass", "fail"} =>
          /\ testCases'[k].status = testCases[k].status
          /\ testCases'[k].feedback = testCases[k].feedback ]_vars

\* C20: when a gateway call returns a result for a test case, the store's
\* record of that test case becomes what the same result gives for a test
\* case on its own, the next test case of the list is set to 'checking', and
\* every other test case is left as it was; and when a submission in which
\* every call returned has ended, each test case carries the verdict of its
\* own result and expectedOutput.
C20_Step ==
  \A t \in Tasks, r \in ResultsDomain :
    Delivers(t, r) =>
      LET task == tasks[t]
          testCase == task.snap[task.i]
          alone == SettleCase(
                     << [testCase EXCEPT !.status = "checking", !.feedback = None] >>,
                     testCase, r)[1]
      IN  /\ DOMAIN testCases' = DOMAIN testCases
          /\ \A k \in DOMAIN testCases :
               IF testCases[k].id = testCase.id
                 THEN testCases'[k] = alone
               ELSE IF task.i < Len(task.snap)
                       /\ testCases[k].id = task.snap[task.i + 1].id
                 THEN testCases'[k] =
                        [testCases[k] EXCEPT !.status = "checking", !.feedback = None]
               ELSE testCases'[k] = testCases[k]

C20_Final ==
  \A t \in Tasks :
    (Resolved(t) /\ ~tasks[t].threw) =>
      \A n \in DOMAIN tasks[t].snap, k \in DOMAIN testCases :
        testCases[k].id = tasks[t].snap[n].id =>
          /\ testCases[k].result # None
          /\ LET v == Classify(testCases[k].result[1], testCases[k].expectedOutput)
             IN  IF v = None
                   THEN testCases[k].status = "checking"
                   ELSE /\ testCases[k].status = v[1].status
                        /\ testCases[k].feedback = v[1].feedback

C20_CasesIndependent == []C20_Final /\ [][C20_Step]_vars

C20_Witness ==
  \E j, k \in DOMAIN testCases :
    /\ j < k
    /\ testCases[j].result = Some(TerminatedResult)
    /\ testCases[j].status = "fail"
    /\ testCases[k].result = Some(CompleteResult(0, << "[0, 1]" >>, << >>))
    /\ testCases[k].status = "pass"

\* C21: when checkCode has run after an earlier submission with the same code,
\* language and test cases, and the gateway has given it the same results (and
\* has rejected at the same test case, if it did), every test case ends with
\* the status and feedback the earlier submission left it with, which are
\* those of the snapshot the second run started from.
C21_SecondRunSameVerdicts ==
  \A t \in Tasks :
    ( /\ t >= 2
      /\ tasks[t].kind = "checkAll"
      /\ Resolved(t) /\ Resolved(t - 1)
      /\ tasks[t].code = tasks[t - 1].code
      /\ tasks[t].lang = tasks[t - 1].lang
      /\ tasks[t].prob = tasks[t - 1].prob
      /\ tasks[t].threw = tasks[t - 1].threw
      /\ tasks[t].i = tasks[t - 1].i
      /\ \A k \in DOMAIN testCases : testCases[k].result = tasks[t].snap[k].result ) =>
      \A k \in DOMAIN testCases :
        /\ testCases[k].id = tasks[t].snap[k].id
        /\ testCases[k].status = tasks[t].snap[k].status
        /\ testCases[k].feedback = tasks[t].snap[k].feedback

C21_Witness ==
  /\ Resolved(1) /\ Resolved(2)
  /\ tasks[1].kind = "checkAll" /\ tasks[2].kind = "checkAll"
  /\ Len(testCases) >= 2
  /\ \A k \in DOMAIN testCases : testCases[k].result = tasks[2].snap[k].result
  /\ testCases[1].status = "pass" /\ tasks[2].snap[1].status = "pass"
  /\ testCases[2].status = "fail" /\ tasks[2].snap[2].status = "fail"
  /\ testCases[2].feedback # None

\* C22: after setCurrentProblem(p) the store's test-case list is the
\* instantiation of p's templates, in their order: each test case idle, without
\* feedback or result, under an id that no test case of the previous list had.
C22_FreshTestCases ==
  [][ \A p \in problems :
        setCurrentProblem(p) =>
          LET ts == IF p.testCases = None THEN << >> ELSE p.testCases[1]
          IN  /\ Len(testCases') = Len(ts)
              /\ \A k \in DOMAIN ts :
                   /\ testCases'[k].description = ts[k].description
                   /\ testCases'[k].stdin = ts[k].stdin
                   /\ testCases'[k].expectedOutput = ts[k].expectedOutput
                   /\ testCases'[k].status = "idle"
                   /\ testCases'[k].feedback = None
                   /\ testCases'[k].result = None
                   /\ \A j \in DOMAIN testCases : testCases[j].id # testCases'[k].id
                   /\ \A j \in DOMAIN ts : j # k => testCases'[j].id # testCases'[k].id ]_vars

C22_Witness ==
  /\ edits >= 1
  /\ tasks[1].kind \in CheckKinds
  /\ tasks[1].prob # NoProblem /\ tasks[1].prob # currentProblem
  /\ \E n \in DOMAIN tasks[1].snap : tasks[1].i > n
  /\ Len(testCases) >= 2
  /\ \A k \in DOMAIN testCases :
       /\ testCases[k].status = "idle"
       /\ \A n \in DOMAIN tasks[1].snap : tasks[1].snap[n].id # testCases[k].id

\* C23: with an active language that has no entry in supportedLanguages,
\* checkCode issues no gateway call, sets no test case to 'checking', writes
\* no verdict to a test case and rejects, so that runTests makes no progress
\* update.
C23_UnknownLanguageThrows ==
  \A t \in Tasks :
    ( /\ tasks[t].kind \in CheckKinds
      /\ tasks[t].pc \notin {"idle", "import"}
      /\ tasks[t].lang \notin DOMAIN supportedLanguages ) =>
      /\ tasks[t].ncalls = 0
      /\ tasks[t].i = 0
      /\ \A k \in DOMAIN testCases : testCases[k].status \notin {"pass", "fail"}
      /\ tasks[t].pc = "done"
      /\ userProgress = << >>

\* C25: in both executors, when the compile-mode call returns, the run-mode
\* call is issued unless the result is completed with a non-zero exit code;
\* in particular it is issued after a crashed or terminated compile.
C25_RunAfterNonCompletedCompile ==
  [][ \A r \in ResultsDomain :
        ( /\ tasks[1].pc = "compile"
          /\ (gatewayReturn(1, r) \/ runElementReturn(1, r)) ) =>
          IF r.resultType = "complete" /\ r.exitCode # 0
            THEN tasks'[1].pc = "done"
            ELSE /\ tasks'[1].pc = "run"
                 /\ IsRunCall(tasks'[1].call[1]) ]_vars

\* C25, the executor checkCode and runCode use: the run-mode call follows
\* every compile result but a completed one with a non-zero exit code.
C25_LiveExecutorRuns ==
  [][ \A r \in ResultsDomain :
        (tasks[1].pc = "compile" /\ gatewayReturn(1, r)) =>
          IF r.resultType = "complete" /\ r.exitCode # 0
            THEN tasks'[1].pc = "done"
            ELSE /\ tasks'[1].pc = "run"
                 /\ IsRunCall(tasks'[1].call[1]) ]_vars

\* C24: when every gateway call is answered in the end, every submission
\* completes and every test case with status 'checking' later has status pass
\* or fail. (No step of SpecLive replaces the list, so a test case keeps its
\* position.)
C24_EventuallySettled ==
  /\ \A t \in Tasks :
       (tasks[t].kind \in CheckKinds) ~> (tasks[t].pc = "done")
  /\ \A k \in 1 .. MaxCases :
       (k \in DOMAIN testCases /\ testCases[k].status = "checking")
         ~> (k \in DOMAIN testCases /\ testCases[k].status \in {"pass", "fail"})

\* C24, the first half: every submission completes.
C24_SubmissionsComplete ==
  \A t \in Tasks : (tasks[t].kind \in CheckKinds) ~> (tasks[t].pc = "done")

\* C26: a submission's run-mode call is the call after the compile-mode call
\* of the same execute() for the same source, with no gateway call of anyone
\* in between; the submission has then issued one compile-mode call and
\* one run-mode call for each test case so far, if no compile failed.
C26_RunFollowsOwnCompile ==
  \A t \in Tasks :
    (tasks[t].kind \in CheckKinds /\ tasks[t].pc = "run") =>
      /\ IsRunCall(tasks[t].call[1])
      /\ Tail(tasks[t].call[1].source) = tasks[t].codeToRun
      /\ tasks[t].compileFailed = None =>
           (tasks[t].compiles = tasks[t].i /\ tasks[t].runs = tasks[t].i)
      /\ tasks[t].between = None

\* C26 within one submission: compile-mode and run-mode calls alternate, one
\* pair for each test case whose compile did not fail.
C26_AlternateWithinSubmission ==
  \A t \in Tasks :
    (tasks[t].kind \in CheckKinds /\ tasks[t].pc = "run") =>
      /\ IsRunCall(tasks[t].call[1])
      /\ Tail(tasks[t].call[1].source) = tasks[t].codeToRun
      /\ tasks[t].compileFailed = None =>
           (tasks[t].compiles = tasks[t].i /\ tasks[t].runs = tasks[t].i)

\* The ids of the test cases in the snapshot task t's checkCode took.
SnapIds(t) == { tasks[t].snap[n].id : n \in DOMAIN tasks[t].snap }

\* C27, the steps: when a submission's gateway call returns or rejects, every
\* test case of the store that is not in the submission's snapshot is left as
\* it is, and the list keeps its length.
C27_Step ==
  \A t \in Tasks :
    ( /\ tasks[t].kind \in CheckKinds
      /\ tasks[t].pc \in GatewayPcs
      /\ (gatewayThrow(t) \/ \E r \in CoreResults : gatewayReturn(t, r)) ) =>
      /\ Len(testCases') = Len(testCases)
      /\ \A k \in DOMAIN testCases :
           testCases[k].id \notin SnapIds(t) => testCases'[k] = testCases[k]

\* C27, the states: once checkCode has taken its snapshot, a test case of the
\* store outside the snapshot (one of a problem selected since) is idle, with
\* no feedback and no result.
C27_Idle ==
  \A k \in DOMAIN testCases :
    ( /\ tasks[1].kind \in CheckKinds
      /\ tasks[1].pc # "import"
      /\ testCases[k].id \notin SnapIds(1) ) =>
      /\ testCases[k].status = "idle"
      /\ testCases[k].feedback = None
      /\ testCases[k].result = None

C28_SolvedMonotonic ==
  [][ /\ \A k \in DOMAIN userProgress :
           /\ k \in DOMAIN userProgress'
           /\ userProgress'[k].problemId = userProgress[k].problemId
           /\ userProgress[k].solved => userProgress'[k].solved
      /\ \A passed \in BOOLEAN :
           (currentProblem # NoProblem /\ callUpdateProblemProgress(passed)) =>
             /\ Written # None
             /\ Written[1].passed = passed ]_vars

C28_Witness ==
  \E k \in DOMAIN userProgress :
    /\ userProgress[k].solved
    /\ Cardinality(DOMAIN userProgress[k].languages) >= 2
    /\ \A l \in DOMAIN userProgress[k].languages :
         ~userProgress[k].languages[l].passed

\* C29: in every state of the store a test case with feedback has status
\* fail; an idle, 'checking' or passed test case has none.
C29_FeedbackOnlyOnFail ==
  \A k \in DOMAIN testCases :
    testCases[k].feedback # None => testCases[k].status = "fail"

C29_Witness ==
  /\ Resolved(1)
  /\ tasks[2].kind \in CheckKinds
  /\ tasks[2].i >= 2
  /\ \E k, j \in DOMAIN testCases :
       /\ k \in DOMAIN tasks[2].snap /\ j \in DOMAIN tasks[2].snap
       /\ tasks[2].snap[k].id = testCases[k].id
       /\ tasks[2].snap[k].feedback # None
       /\ testCases[k].status = "pass" /\ testCases[k].feedback = None
       /\ tasks[2].snap[j].id = testCases[j].id
       /\ tasks[2].snap[j].feedback # None
       /\ testCases[j].status = "checking" /\ testCases[j].feedback = None

\* The Check All invocations whose checkCode has not finished.
CheckAllInFlight == { t \in Tasks : tasks[t].kind = "checkAll" /\ tasks[t].pc \in GatewayPcs }

\* C30, the states: isChecking is true exactly while a Check All is in flight,
\* and at most one is.
C30_Flag ==
  /\ isChecking <=> CheckAllInFlight # {}
  /\ Cardinality(CheckAllInFlight) <= 1

\* C30, the steps: a step of a Check All, from its start to the end of its
\* checkCode, leaves userProgress as it is.
C30_Step ==
  \A t \in Tasks :
    ( /\ tasks'[t].kind = "checkAll"
      /\ tasks'[t] # tasks[t] ) => userProgress' = userProgress

====
